---------------------------- MODULE Spec2Model ----------------------------
(***************************************************************************)
(* py_gasbuddy: the authenticated request pipeline of the GasBuddy GraphQL *)
(* client (src/py_gasbuddy/__init__.py, src/py_gasbuddy/cache.py).         *)
(*                                                                         *)
(* One client instance (its fields are the variables tag, cf_last,         *)
(* cache_manager, cache_file, solver), the cache files on disk (files),    *)
(* and the coroutines running public operations on the client (task).      *)
(* A step of a task is the code between two suspension points.             *)
(***************************************************************************)
EXTENDS Integers, Sequences, FiniteSets, TLC

(***************************************************************************)
(* Python / JSON values, tagged by type.                                   *)
(***************************************************************************)
Null == [t |-> "null"]
Num(n) == [t |-> "num", v |-> n]
Str(s) == [t |-> "str", v |-> s]
Arr(s) == [t |-> "arr", v |-> s]
Obj(f) == [t |-> "obj", v |-> f]
Exc(e) == [t |-> "exc", v |-> e]
EmptyDict == Obj(<<>>)

IsDict(x) == x.t = "obj"
Has(x, k) == IsDict(x) /\ k \in DOMAIN x.v

\* dict.get(k, default)
Get(x, k, default) == IF k \in DOMAIN x.v THEN x.v[k] ELSE default

\* bool(x)
Truthy(x) ==
    CASE x.t = "null" -> FALSE
      [] x.t = "num" -> x.v # 0
      [] x.t = "str" -> x.v # ""
      [] x.t = "arr" -> Len(x.v) > 0
      [] x.t = "obj" -> DOMAIN x.v # {}
      [] OTHER -> TRUE

\* x == 0
IsZero(x) == x.t = "num" /\ x.v = 0

\* The result of evaluating an expression: a value or a raised exception.
Ok(x) == [ok |-> TRUE, val |-> x, exc |-> ""]
Raise(e) == [ok |-> FALSE, val |-> Null, exc |-> e]

\* x[k] for a string key k
Sub(x, k) ==
    IF x.t = "obj"
    THEN IF k \in DOMAIN x.v THEN Ok(x.v[k]) ELSE Raise("KeyError")
    ELSE Raise("TypeError")

\* x[0]; the first character of a string stands for itself as a string
Idx0(x) ==
    CASE x.t = "arr" -> IF Len(x.v) > 0 THEN Ok(x.v[1]) ELSE Raise("IndexError")
      [] x.t = "str" -> IF x.v # "" THEN Ok(x) ELSE Raise("IndexError")
      [] x.t = "obj" -> Raise("KeyError")
      [] OTHER -> Raise("TypeError")

\* x[k1][k2]...
RECURSIVE Path(_, _)
Path(x, keys) ==
    IF keys = <<>> THEN Ok(x)
    ELSE LET r == Sub(x, Head(keys))
         IN IF r.ok THEN Path(r.val, Tail(keys)) ELSE r

(***************************************************************************)
(* Program constants.                                                      *)
(***************************************************************************)
MAX_RETRIES == 5
ERROR_TIMEOUT == "Timeout while updating"
MISSING_TOKEN == "Missing Token"
GENERIC_ERROR == "Server side error occured."
TOKEN == "token"
\* cache_exists: a file counts only when its size exceeds this
MIN_CACHE_SIZE == 30


(***************************************************************************)
(* Response Normalizer.                                                    *)
(***************************************************************************)
\* a formatting that passes a price of 0 on
FormatPriceNodeRaw(price_node) ==
    LET credit_raw == Get(price_node, "credit", Null)
        cash_raw == Get(price_node, "cash", Null)
        credit_data == IF Truthy(credit_raw) THEN credit_raw ELSE EmptyDict
        cash_data == IF Truthy(cash_raw) THEN cash_raw ELSE EmptyDict
    IN Obj([credit |-> Get(credit_data, "nickname", Null),
            cash_price |-> Get(cash_data, "price", Num(0)),
            price |-> Get(credit_data, "price", Num(0)),
            last_updated |-> Get(credit_data, "postedTime", Null)])

\* a formatting that leaves cash_price out when the node has no cash entry
FormatPriceNodeOmitCash(price_node) ==
    LET credit_raw == Get(price_node, "credit", Null)
        cash_raw == Get(price_node, "cash", Null)
        credit_data == IF Truthy(credit_raw) THEN credit_raw ELSE EmptyDict
        credit_price == Get(credit_data, "price", Num(0))
        cash_price == Get(IF Truthy(cash_raw) THEN cash_raw ELSE EmptyDict,
                          "price", Num(0))
        record == [credit |-> Get(credit_data, "nickname", Null),
                   price |-> IF IsZero(credit_price) THEN Null ELSE credit_price,
                   last_updated |-> Get(credit_data, "postedTime", Null)]
    IN IF cash_raw = Null THEN Obj(record)
       ELSE Obj(record @@ [cash_price |-> IF IsZero(cash_price) THEN Null
                                          ELSE cash_price])

\* _format_price_node
FormatPriceNode(price_node) ==
    LET credit_raw == Get(price_node, "credit", Null)
        cash_raw == Get(price_node, "cash", Null)
        credit_data == IF Truthy(credit_raw) THEN credit_raw ELSE EmptyDict
        cash_data == IF Truthy(cash_raw) THEN cash_raw ELSE EmptyDict
        credit_price == Get(credit_data, "price", Num(0))
        cash_price == Get(cash_data, "price", Num(0))
    IN Obj([credit |-> Get(credit_data, "nickname", Null),
            cash_price |-> IF IsZero(cash_price) THEN Null ELSE cash_price,
            price |-> IF IsZero(credit_price) THEN Null ELSE credit_price,
            last_updated |-> Get(credit_data, "postedTime", Null)])

\* for price in prices: data[price["fuelProduct"]] = _format_price_node(price)
\* (a later entry with the same fuel product replaces an earlier one)
RECURSIVE AddPrices(_, _)
AddPrices(data, prices) ==
    IF prices = <<>> THEN data
    ELSE LET price == Head(prices)
             index == price.v["fuelProduct"].v
         IN AddPrices((index :> FormatPriceNode(price)) @@ data, Tail(prices))

PriceNodeShape(price) ==
    /\ IsDict(price)
    /\ Has(price, "fuelProduct")
    /\ price.v["fuelProduct"].t = "str"
    /\ Get(price, "credit", Null).t \in {"null", "obj"}
    /\ Get(price, "cash", Null).t \in {"null", "obj"}

StationKeys == {"id", "priceUnit", "currency", "latitude", "longitude", "prices"}

\* the shape the station accesses of price_lookup / _parse_results need
StationShape(st, keys) ==
    /\ IsDict(st)
    /\ keys \subseteq DOMAIN st.v
    /\ st.v["prices"].t = "arr"
    /\ \A i \in 1..Len(st.v["prices"].v) : PriceNodeShape(st.v["prices"].v[i])

BrandsShape(st) ==
    /\ st.v["brands"].t = "arr"
    /\ Len(st.v["brands"].v) > 0 => Has(st.v["brands"].v[1], "imageUrl")

\* the exception a subscript chain raises on a payload of another shape
ShapeError(x) == IF IsDict(x) THEN Raise("KeyError") ELSE Raise("TypeError")

\* price_lookup, lines 170-191
NormalizeStation(response) ==
    LET r == Path(response, <<"data", "station">>)
        st == r.val
    IN IF ~r.ok THEN r
       ELSE IF ~(StationShape(st, StationKeys \cup {"brands"}) /\ BrandsShape(st))
       THEN ShapeError(st)
       ELSE LET brands == st.v["brands"].v
                data == [station_id |-> st.v["id"],
                         unit_of_measure |-> st.v["priceUnit"],
                         currency |-> st.v["currency"],
                         latitude |-> st.v["latitude"],
                         longitude |-> st.v["longitude"],
                         image_url |-> IF Len(brands) > 0
                                       THEN brands[1].v["imageUrl"] ELSE Null]
            IN Ok(Obj(AddPrices(data, st.v["prices"].v)))

\* a slice that takes every result
SliceAll(results, limit) == results

\* results[:limit]
Slice(results, limit) ==
    LET n == Len(results)
        stop == IF limit >= 0 THEN (IF limit < n THEN limit ELSE n)
                ELSE (IF n + limit > 0 THEN n + limit ELSE 0)
    IN SubSeq(results, 1, stop)

RECURSIVE ParseStations(_)
ParseStations(results) ==
    IF results = <<>> THEN <<>>
    ELSE LET result == Head(results)
             price_data == [station_id |-> result.v["id"],
                            unit_of_measure |-> result.v["priceUnit"],
                            currency |-> result.v["currency"],
                            latitude |-> result.v["latitude"],
                            longitude |-> result.v["longitude"]]
         IN <<Obj(AddPrices(price_data, result.v["prices"].v))>>
                \o ParseStations(Tail(results))

\* _parse_results
ParseResults(response, limit) ==
    LET r == Path(response, <<"data", "locationBySearchTerm", "stations", "results">>)
    IN IF ~r.ok THEN r
       ELSE IF r.val.t # "arr" THEN Raise("TypeError")
       ELSE LET taken == Slice(r.val.v, limit)
            IN IF \E i \in 1..Len(taken) : ~StationShape(taken[i], StationKeys)
               THEN Raise("KeyError")
               ELSE Ok(Arr(ParseStations(taken)))

RECURSIVE MapTrends(_)
MapTrends(trends) ==
    IF trends = <<>> THEN <<>>
    ELSE LET trend == Head(trends)
         IN <<Obj([average_price |-> trend.v["today"],
                   lowest_price |-> trend.v["todayLow"],
                   area |-> trend.v["areaName"]])>> \o MapTrends(Tail(trends))

\* _parse_trends
ParseTrends(response) ==
    LET r == Path(response, <<"data", "locationBySearchTerm", "trends">>)
    IN IF ~r.ok THEN r
       ELSE IF r.val.t # "arr" THEN Raise("TypeError")
       ELSE IF \E i \in 1..Len(r.val.v) :
                 ~({"today", "todayLow", "areaName"} \subseteq DOMAIN r.val.v[i].v)
       THEN Raise("KeyError")
       ELSE Ok(Arr(MapTrends(r.val.v)))

\* price_lookup_service, lines 232-240
NormalizeSearch(response, limit) ==
    LET result_list == ParseResults(response, limit)
        trend_data == ParseTrends(response)
    IN IF ~result_list.ok THEN result_list
       ELSE IF ~trend_data.ok THEN trend_data
       ELSE IF Truthy(trend_data.val)
       THEN Ok(Obj([results |-> result_list.val, trend |-> trend_data.val]))
       ELSE Ok(Obj([results |-> result_list.val]))


(***************************************************************************)
(* Outcome of a public operation, as its caller observes it.               *)
(***************************************************************************)
NoOutcome == [st |-> "none", exc |-> "", args |-> <<>>, val |-> Null]
Returned(x) == [st |-> "return", exc |-> "", args |-> <<>>, val |-> x]
\* raise E  (the exception class raised bare: an instance without arguments)
Raised(e) == [st |-> "raise", exc |-> e, args |-> <<>>, val |-> Null]

\* a validation that accepts a half-given coordinate pair
ValidSearchAny(lat, lon, zipcode) == lat \/ lon \/ zipcode

\* location_search, lines 120-126: has a complete (lat, lon) pair or a zipcode
ValidSearch(lat, lon, zipcode) == (lat /\ lon) \/ zipcode

\* a location_search that classifies the result as the price operations do
LocationSearchResultRaising(response) ==
    IF Has(response, "error")
    THEN [out |-> Raised("LibraryError"), logged |-> response.v["error"],
          normalized |-> FALSE]
    ELSE [out |-> Returned(response), logged |-> Null, normalized |-> FALSE]

\* location_search, line 134: the executor's result is returned as it is
LocationSearchResult(response) ==
    [out |-> Returned(response), logged |-> Null, normalized |-> FALSE]

\* price_lookup, lines 157-163: the message of an "errors" value
PriceLookupMessage(errors) ==
    LET r1 == Sub(errors, "message")
        r0 == Idx0(errors)
        r2 == IF r0.ok THEN Sub(r0.val, "message") ELSE r0
    IN IF r1.ok THEN r1
       ELSE IF r1.exc \notin {"ValueError", "TypeError"} THEN r1
       ELSE IF r2.ok THEN r2
       ELSE IF r2.exc \notin {"IndexError", "ValueError", "TypeError"} THEN r2
       ELSE Ok(Str(GENERIC_ERROR))

\* a message extraction that reports the generic message
PriceLookupServiceMessageGeneric(errors) == Ok(Str(GENERIC_ERROR))

\* price_lookup_service, line 225
PriceLookupServiceMessage(errors) == Sub(errors, "message")

\* price_lookup, lines 149-191
PriceLookupResult(response) ==
    IF ~IsDict(response)
    THEN [out |-> Raised("AttributeError"), logged |-> Null, normalized |-> FALSE]
    ELSE IF Has(response, "error")
    THEN [out |-> Raised("LibraryError"), logged |-> response.v["error"],
          normalized |-> FALSE]
    ELSE IF Has(response, "errors")
    THEN LET m == PriceLookupMessage(response.v["errors"])
         IN IF m.ok
            THEN [out |-> Raised("APIError"), logged |-> m.val, normalized |-> FALSE]
            ELSE [out |-> Raised(m.exc), logged |-> Null, normalized |-> FALSE]
    ELSE LET n == NormalizeStation(response)
         IN [out |-> IF n.ok THEN Returned(n.val) ELSE Raised(n.exc),
             logged |-> Null, normalized |-> TRUE]

\* price_lookup_service, lines 217-240
PriceLookupServiceResult(response, limit) ==
    IF ~IsDict(response)
    THEN [out |-> Raised("AttributeError"), logged |-> Null, normalized |-> FALSE]
    ELSE IF Has(response, "error")
    THEN [out |-> Raised("LibraryError"), logged |-> response.v["error"],
          normalized |-> FALSE]
    ELSE IF Has(response, "errors")
    THEN LET m == PriceLookupServiceMessage(response.v["errors"])
         IN IF m.ok
            THEN [out |-> Raised("APIError"), logged |-> m.val, normalized |-> FALSE]
            ELSE [out |-> Raised(m.exc), logged |-> Null, normalized |-> FALSE]
    ELSE LET n == NormalizeSearch(response, limit)
         IN [out |-> IF n.ok THEN Returned(n.val) ELSE Raised(n.exc),
             logged |-> Null, normalized |-> TRUE]

(***************************************************************************)
(* Token Store: the cache file.                                            *)
(***************************************************************************)
NoFile == [kind |-> "absent", size |-> 0, token |-> ""]

\* a record that holds more than the token
TokenRecordWithData(token) ==
    [kind |-> "json", size |-> 8 + Len(TOKEN) + Len(token), token |-> token]

\* a record written without the token that was found
TokenRecordBlank(token) ==
    [kind |-> "record", size |-> 8 + Len(TOKEN) + Len(token), token |-> ""]

\* json.dumps({TOKEN: token}).encode("utf-8"), as the file it makes
TokenRecord(token) ==
    [kind |-> "record", size |-> 8 + Len(TOKEN) + Len(token), token |-> token]

\* a write that leaves the file as it found it
WrittenNothing(f, data) == f

\* open(mode="wb"): the file exists and is empty
Truncated == [kind |-> "garbage", size |-> 0, token |-> ""]

\* file.write(data) from offset 0 of a file opened while it held f: a file
\* removed since takes no data, longer content written meanwhile keeps its tail
Written(f, data) ==
    IF f.kind = "absent" THEN f
    ELSE IF f.size > data.size
    THEN [kind |-> "garbage", size |-> f.size, token |-> ""]
    ELSE data

\* an existence check that ignores the size
CacheExistsAnySize(f) == f.kind # "absent"

\* cache_exists
CacheExists(f) == f.kind # "absent" /\ f.size > MIN_CACHE_SIZE

\* read_cache
ReadCache(f) ==
    CASE f.kind = "absent" -> EmptyDict
      [] f.kind = "garbage" -> EmptyDict
      [] f.kind = "json" -> Obj([other |-> Str("x")])
      [] f.kind = "record" -> Obj(TOKEN :> Str(f.token))

\* the file passes cache_exists and its content has the token field
ValidRecord(f) == CacheExists(f) /\ Has(ReadCache(f), TOKEN)

\* GasBuddyCache.__init__: the file a cache manager made from cache_file uses
CachePath(cf) == IF cf = "" THEN "default" ELSE cf

(***************************************************************************)
(* Token Acquirer and Request Executor: the pure parts.                    *)
(***************************************************************************)
\* _get_headers, lines 279-282: the cache manager the call installs
NextManager(cf, manager) ==
    IF cf # "" /\ manager = "None" THEN CachePath(cf) ELSE CachePath("")

\* an adoption that drops the cached token
AdoptedTagNone(cache_data) == ""

\* _get_headers, lines 287-290: the token adopted from the cache data
AdoptedTag(cache_data) ==
    IF IsDict(cache_data) /\ TOKEN \in DOMAIN cache_data.v
    THEN cache_data.v[TOKEN].v ELSE ""

\* a check that lets only the first call of a client go without a fetch
SkipFetchFirstOnly(cf) == cf = "None"

\* _get_headers, line 302: return without fetching
SkipFetch(cf) == cf = "None" \/ cf = "True"

\* _get_headers, lines 275-277, 295-300 and 309-311: the acquisition request and,
\* lines 322-324, the part of the answer that is searched for the token
NoRequest ==
    [method |-> "", url |-> "", cmd |-> "", target |-> "", maxTimeout |-> "",
     searched |-> ""]
\* an acquisition that goes to the landing page whatever the configuration
FetchRequestDirect(with_solver) ==
    [method |-> "get", url |-> "GB_HOME_URL", cmd |-> "", target |-> "",
     maxTimeout |-> "", searched |-> "text"]

FetchRequest(with_solver) ==
    IF with_solver
    THEN [method |-> "post", url |-> "solver", cmd |-> "request.get",
          target |-> "GB_HOME_URL", maxTimeout |-> "timeout",
          searched |-> "solution.response"]
    ELSE [method |-> "get", url |-> "GB_HOME_URL", cmd |-> "", target |-> "",
          maxTimeout |-> "", searched |-> "text"]

\* a response handling that logs no "Retrying request..."
RetryingEventsNone(status) == 0

\* process_request, lines 89-90: the "Retrying request..." events of a response
RetryingEvents(status) == IF status = 403 THEN 1 ELSE 0

\* the response to a POST, as the next operation's history: status and whether
\* the body was JSON
NoPost == [status |-> 0, json |-> FALSE]

\* an exception of the POST that is caught and leaves the message empty
CaughtResultEmpty(k) == EmptyDict

\* process_request, lines 102-107: the message made of an exception of the POST
\* that is caught
CaughtResult(k) ==
    IF k = "timeout" THEN Obj([error |-> Str(ERROR_TIMEOUT)])
    ELSE Obj([error |-> Exc("ContentTypeError")])

\* a response handling that returns the body of a failed status as it is
DecodeUnwrapped(status, body) ==
    LET message == IF body.json THEN body.val ELSE Obj([error |-> body.val])
    IN [message |-> message,
        cf_last |-> IF status = 200 /\ body.json THEN "True" ELSE "False"]

\* a response handling that keeps the token fresh when the body is no JSON
DecodeTextFresh(status, body) ==
    LET message == IF body.json THEN body.val ELSE Obj([error |-> body.val])
    IN IF status = 403 THEN [message |-> message, cf_last |-> "False"]
       ELSE IF status # 200
       THEN [message |-> Obj([error |-> message]), cf_last |-> "False"]
       ELSE [message |-> message, cf_last |-> "True"]

\* a response handling without the stale mark of status 403
DecodeForbiddenUnmarked(status, body) ==
    LET message == IF body.json THEN body.val ELSE Obj([error |-> body.val])
        cf == IF body.json THEN "True" ELSE "False"
    IN IF status \notin {200, 403}
       THEN [message |-> Obj([error |-> message]), cf_last |-> "False"]
       ELSE [message |-> message, cf_last |-> cf]

\* process_request, lines 82-100: the message returned for a response and the
\* value left in _cf_last
Decode(status, body) ==
    LET message == IF body.json THEN body.val ELSE Obj([error |-> body.val])
        cf == IF body.json THEN "True" ELSE "False"
    IN IF status = 403 THEN [message |-> message, cf_last |-> "False"]
       ELSE IF status # 200
       THEN [message |-> Obj([error |-> message]), cf_last |-> "False"]
       ELSE [message |-> message, cf_last |-> cf]


(***************************************************************************)
(* The environment: what the disk holds at construction and what the       *)
(* network answers.                                                        *)
(***************************************************************************)
\* tokens the landing page may carry
PageTokens == {"1.+Qw4hH/vdM0Kvscg", "1.RiXH1tCtoqNhvBuo"}

\* sizes of files the disk may hold that no token record of this client made
SmallSize == 29
CorruptSize == 59

\* transport-level exceptions (aiohttp.ClientError) the network raises within
\* one operation, unless the specification lifts the budget
MaxFaults == 1

Paths == {"default", "custom"}

SmallFile == [kind |-> "garbage", size |-> SmallSize, token |-> ""]
CorruptFile == [kind |-> "garbage", size |-> CorruptSize, token |-> ""]
NoTokenFile == [kind |-> "json", size |-> CorruptSize, token |-> ""]

InitContents ==
    {NoFile, SmallFile, CorruptFile, NoTokenFile}
    \cup {TokenRecord(T) : T \in PageTokens}

\* outcomes of the acquisition fetch (GET of the landing page, or POST to the solver)
\* (timeup: backoff finds max_time has passed when the exception reaches it)
FetchOutcomes(with_solver) ==
    {[k |-> "client_error", token |-> "", timeup |-> late] : late \in BOOLEAN}
    \cup {[k |-> "timeout", token |-> "", timeup |-> FALSE],
          [k |-> "status", token |-> "", timeup |-> FALSE],
          [k |-> "nomarker", token |-> "", timeup |-> FALSE]}
    \cup {[k |-> "page", token |-> T, timeup |-> FALSE] : T \in PageTokens}
    \cup (IF with_solver
          THEN {[k |-> "reply_not_json", token |-> "", timeup |-> FALSE],
                [k |-> "reply_no_solution", token |-> "", timeup |-> FALSE]}
          ELSE {})

\* a landing page with a token one character longer than the others
LongToken == "1.RiXH1tCtoqNhvBuo+"
LongPages == {[k |-> "page", token |-> LongToken, timeup |-> FALSE]}

CreditFlemmit ==
    Obj([nickname |-> Str("Flemmit"), postedTime |-> Str("2024-09-06T09:54:05.489Z"),
         price |-> Num(327)])
NodeRegular ==
    Obj([fuelProduct |-> Str("regular_gas"), credit |-> CreditFlemmit,
         cash |-> Obj([nickname |-> Str("Flemmit"), price |-> Num(317)])])
NodePremium ==
    Obj([fuelProduct |-> Str("premium_gas"),
         credit |-> Obj([nickname |-> Null, postedTime |-> Null, price |-> Num(0)]),
         cash |-> Null])
NodeDiesel ==
    Obj([fuelProduct |-> Str("diesel"), credit |-> Null])

StationWith(id, brands, prices) ==
    Obj([id |-> Str(id), priceUnit |-> Str("dollars_per_gallon"),
         currency |-> Str("USD"), latitude |-> Num(33), longitude |-> Num(-112),
         brands |-> Arr(brands), prices |-> Arr(prices)])

StationPayload ==
    Obj([data |-> Obj([station |->
        StationWith("205033", <<>>, <<NodeRegular, NodePremium>>)])])

TrendArizona ==
    Obj([today |-> Num(333), todayLow |-> Num(259), areaName |-> Str("Arizona")])

SearchPayload ==
    Obj([data |-> Obj([locationBySearchTerm |->
        Obj([stations |-> Obj([results |->
                 Arr(<<StationWith("187725", <<>>, <<NodeRegular>>),
                       StationWith("187726", <<>>, <<NodeDiesel>>)>>)]),
             trends |-> Arr(<<TrendArizona>>)])])])

Messages == {"Fake Error"}

\* the shapes of an "errors" value
ErrorsValues ==
    {Obj([message |-> Str(M)]) : M \in Messages}
    \cup {Arr(<<Obj([message |-> Str(M)])>>) : M \in Messages}
    \cup {Obj([code |-> Num(1)]), Arr(<<Obj([code |-> Num(1)])>>), Arr(<<>>),
          Str("error")}

JsonBody(x) == [json |-> TRUE, val |-> x]
TextBody(text) == [json |-> FALSE, val |-> Str(text)]

ChallengeBody == TextBody("Just a moment...")
ForbiddenBody == JsonBody(Obj([message |-> Str("Forbidden")]))

\* bodies of a status-200 response
Bodies ==
    {ChallengeBody, JsonBody(StationPayload), JsonBody(SearchPayload),
     ForbiddenBody, JsonBody(Arr(<<>>))}
    \cup {JsonBody(Obj([errors |-> E])) : E \in ErrorsValues}

\* bodies of a response with another status
ErrorBodies ==
    {ChallengeBody, ForbiddenBody, JsonBody(StationPayload),
     JsonBody(Obj([errors |-> Obj([message |-> Str("Fake Error")])]))}

\* outcomes of the GraphQL POST
PostOutcomes ==
    {[k |-> "client_error", status |-> 0, body |-> TextBody(""), timeup |-> late] :
         late \in BOOLEAN}
    \cup {[k |-> "timeout", status |-> 0, body |-> TextBody(""), timeup |-> FALSE],
          [k |-> "content_type", status |-> 0, body |-> TextBody(""), timeup |-> FALSE]}
    \cup {[k |-> "response", status |-> 200, body |-> b, timeup |-> FALSE] :
              b \in Bodies}
    \cup {[k |-> "response", status |-> st, body |-> b, timeup |-> FALSE] :
              st \in {403, 404}, b \in ErrorBodies}

\* price_lookup_service, line 198: limit: int = 5
DEFAULT_LIMIT == 5
Limits == {1, DEFAULT_LIMIT}

(***************************************************************************)
(* State.                                                                  *)
(***************************************************************************)
VARIABLES
    tag,            \* GasBuddy._tag
    cf_last,        \* GasBuddy._cf_last: "None", "True" or "False"
    cache_manager,  \* GasBuddy._cache_manager: "None" or the path of its file
    cache_file,     \* GasBuddy._cache_file: "" or a path
    solver,         \* GasBuddy._solver is set
    files,          \* the disk: path -> file
    task,           \* the coroutines running public operations
    cleared,        \* clear_cache() has returned and no operation began since
    concurrent,     \* the caller runs operations on the client concurrently
    fault_budget,   \* transport-level exceptions the network raises per operation
    last_post,      \* the response the latest finished operation got to its POST
    call            \* a call of a normalizer function: its arguments and result

config == <<cache_file, solver, concurrent, fault_budget, call>>
vars == <<tag, cf_last, cache_manager, cache_file, solver, files, task, cleared,
          concurrent, fault_budget, last_post, call>>

\* no normalizer function is being called on its own
NoCall == [fn |-> "none", node |-> Null, response |-> Null, limit |-> 0,
           done |-> FALSE, out |-> Ok(Null)]

Tasks == {"A", "B"}
NoArgs == [lat |-> FALSE, lon |-> FALSE, zipcode |-> FALSE]
MainTask == "A"

IdleTask ==
    [pc |-> "idle", op |-> "none", limit |-> 0,
     args |-> NoArgs,       \* location_search: which arguments were given
     pr_tries |-> 0,        \* calls of process_request made by backoff
     gh_tries |-> 0,        \* calls of _get_headers made by backoff in this attempt
     faults |-> 0,          \* transport-level exceptions raised in this operation
     path |-> "None",       \* the file of the cache manager a cache call is bound to
     seen |-> NoFile,       \* the file cache_exists examined in this attempt
     ex |-> FALSE,          \* what cache_exists returned
     cache_data |-> Null,   \* what read_cache returned
     wdata |-> NoFile,      \* the record write_cache is writing
     sent |-> "",           \* the gbcsrf header of the last POST
     status |-> 0,          \* the status of the response to the POST, if one came
     resp |-> Null,         \* what process_request returned
     out |-> NoOutcome,     \* what the operation returned or raised
     logged |-> Null,       \* the message of "An error occured attempting ..."
     normalized |-> FALSE,  \* the normalizer ran
     fetch |-> "none",      \* what the last fetch of this attempt answered
     request |-> NoRequest, \* the request of that fetch
     stale_events |-> 0,    \* "Retrying request..." events of the operation
     posts |-> 0,           \* POSTs sent in the operation
     fetches |-> 0,         \* acquisition fetches made in the operation
     fetch_returned |-> FALSE, \* the latest of them did not raise aiohttp.ClientError
     refetch |-> FALSE,     \* a fetch was made after one that did not raise
     posted |-> FALSE,      \* a POST was made in this process_request attempt
     posted_before |-> FALSE, \* a POST was made in an earlier attempt
     after_clear |-> FALSE] \* the operation is the first after clear_cache()

InitCommon ==
    /\ tag = ""
    /\ cf_last = "None"
    /\ cache_manager = "None"
    /\ cache_file \in {"", "custom"}
    /\ solver \in BOOLEAN
    /\ files \in [Paths -> InitContents]
    /\ cache_file = "" => files["custom"] = NoFile
    /\ task = [t \in Tasks |-> IdleTask]
    /\ cleared = FALSE
    /\ last_post = NoPost

Init ==
    /\ InitCommon
    /\ concurrent = FALSE
    /\ fault_budget = MaxFaults
    /\ call = NoCall

(***************************************************************************)
(* Public operations.                                                      *)
(***************************************************************************)
\* A caller that does not run operations concurrently awaits each one.
CanStart(t) ==
    /\ task[t].pc = "idle"
    /\ concurrent \/ (t = MainTask /\ \A u \in Tasks : task[u].pc = "idle")

\* the operation returns or raises; the locals of its frames are gone
Finish(t, rec, outcome) ==
    task' = [task EXCEPT ![t] =
               [rec EXCEPT !.pc = "done", !.out = outcome, !.pr_tries = 0,
                           !.gh_tries = 0, !.faults = 0, !.path = "None",
                           !.ex = FALSE, !.cache_data = Null, !.wdata = NoFile]]

OperationResult(rec, response) ==
    CASE rec.op = "location_search" -> LocationSearchResult(response)
      [] rec.op = "price_lookup" -> PriceLookupResult(response)
      [] rec.op = "price_lookup_service" -> PriceLookupServiceResult(response, rec.limit)

\* a classification of the response in which status 403 is tried again
RespondRetrying(t, rec, response) ==
    LET r == OperationResult(rec, response)
    IN IF rec.status = 403
       THEN task' = [task EXCEPT ![t] = [rec EXCEPT !.pc = "pr"]]
       ELSE Finish(t, [rec EXCEPT !.resp = response, !.logged = r.logged,
                                  !.normalized = r.normalized, !.args = NoArgs],
                   r.out)

\* process_request returns response to the operation, which classifies it
Respond(t, rec, response) ==
    LET r == OperationResult(rec, response)
    IN Finish(t, [rec EXCEPT !.resp = response, !.logged = r.logged,
                             !.normalized = r.normalized, !.args = NoArgs], r.out)

(***************************************************************************)
(* process_request and _get_headers, each under backoff.on_exception.      *)
(***************************************************************************)
\* one call of _get_headers begins: lines 275-284, up to cache_exists()
EnterHeaders(t, rec) ==
    /\ cache_manager' = NextManager(cache_file, cache_manager)
    /\ task' = [task EXCEPT ![t] =
                  [rec EXCEPT !.pc = "gh_cache", !.gh_tries = @ + 1,
                              !.seen = files[cache_manager'],
                              !.ex = CacheExists(files[cache_manager'])]]

\* one call of process_request begins: lines 60-62
EnterRequest(t, rec) ==
    EnterHeaders(t, [rec EXCEPT !.pr_tries = @ + 1, !.gh_tries = 0,
                                !.fetch = "none", !.request = NoRequest,
                                !.posted = FALSE,
                                !.posted_before = rec.posted_before \/ rec.posted])

\* a backoff around process_request that forgets the tries it made
RetryRequestForgetful(t, rec, timeup) ==
    task' = [task EXCEPT ![t] =
               [rec EXCEPT !.pc = "pr", !.pr_tries = 0, !.faults = 0,
                           !.posts = 0, !.fetches = 0, !.posted = FALSE,
                           !.posted_before = FALSE, !.refetch = FALSE]]

\* a backoff around process_request without max_tries
RetryRequestUnbounded(t, rec, timeup) ==
    IF ~timeup
    THEN task' = [task EXCEPT ![t] = [rec EXCEPT !.pc = "pr"]]
    ELSE Finish(t, rec, Raised("ClientError"))

\* backoff around process_request: an aiohttp.ClientError raised in the attempt
\* is retried until MAX_RETRIES calls were made or max_time has passed
RetryRequest(t, rec, timeup) ==
    IF rec.pr_tries < MAX_RETRIES /\ ~timeup
    THEN task' = [task EXCEPT ![t] = [rec EXCEPT !.pc = "pr"]]
    ELSE Finish(t, rec, Raised("ClientError"))

\* a backoff around _get_headers without max_tries
RetryHeadersUnbounded(t, rec, timeup) ==
    task' = [task EXCEPT ![t] = [rec EXCEPT !.pc = "gh"]]

\* backoff around _get_headers: retried until MAX_RETRIES calls were made; then
\* the exception reaches process_request, which does not catch it
RetryHeaders(t, rec, timeup) ==
    IF rec.gh_tries < MAX_RETRIES
    THEN task' = [task EXCEPT ![t] = [rec EXCEPT !.pc = "gh"]]
    ELSE RetryRequest(t, rec, timeup)

\* _get_headers returned: lines 67-73, the GraphQL POST is sent with the token
\* in the gbcsrf header
SendPost(t, rec, token) ==
    task' = [task EXCEPT ![t] =
               [rec EXCEPT !.pc = "post_wait", !.sent = token, !.posted = TRUE,
                           !.posts = @ + 1]]

\* a process_request that goes on to the POST without a token
TokenMissingIgnored(t, rec) == SendPost(t, rec, tag)

\* _get_headers raised CSRFTokenMissing: process_request, lines 63-65
TokenMissing(t, rec) == Respond(t, rec, Obj([error |-> Str(MISSING_TOKEN)]))

\* the operation reaches its call of process_request
Begin(t, rec) ==
    /\ EnterRequest(t, [rec EXCEPT !.after_clear = cleared])
    /\ cleared' = FALSE

\* location_search(lat, lon, zipcode): each argument given or None
LocationSearch(t, lat, lon, zipcode) ==
    /\ CanStart(t)
    /\ LET rec == [IdleTask EXCEPT !.op = "location_search",
                                   !.args = [lat |-> lat, lon |-> lon,
                                             zipcode |-> zipcode]]
       IN IF ValidSearch(lat, lon, zipcode)
          THEN Begin(t, rec)
          ELSE /\ Finish(t, rec, Raised("MissingSearchData"))
               /\ UNCHANGED <<cleared, cache_manager>>
    /\ UNCHANGED <<tag, cf_last, files, last_post, config>>

\* price_lookup()
PriceLookup(t) ==
    /\ CanStart(t)
    /\ Begin(t, [IdleTask EXCEPT !.op = "price_lookup"])
    /\ UNCHANGED <<tag, cf_last, files, last_post, config>>

\* price_lookup_service(lat, lon, zipcode, limit)
PriceLookupService(t, lim) ==
    /\ CanStart(t)
    /\ Begin(t, [IdleTask EXCEPT !.op = "price_lookup_service", !.limit = lim])
    /\ UNCHANGED <<tag, cf_last, files, last_post, config>>

\* backoff calls process_request again
ProcessRequest(t) ==
    /\ task[t].pc = "pr"
    /\ EnterRequest(t, task[t])
    /\ UNCHANGED <<tag, cf_last, files, cleared, last_post, config>>

\* backoff calls _get_headers again
GetHeaders(t) ==
    /\ task[t].pc = "gh"
    /\ EnterHeaders(t, task[t])
    /\ UNCHANGED <<tag, cf_last, files, cleared, last_post, config>>

\* lines 284-293: read_cache() of an existing cache, or the stale mark
GetHeadersCache(t) ==
    /\ task[t].pc = "gh_cache"
    /\ IF task[t].ex
       THEN /\ task' = [task EXCEPT ![t] =
                          [@ EXCEPT !.pc = "gh_adopt",
                                    !.cache_data = ReadCache(files[cache_manager])]]
            /\ UNCHANGED cf_last
       ELSE /\ cf_last' = "False"
            /\ task' = [task EXCEPT ![t] = [@ EXCEPT !.pc = "gh_fetch"]]
    /\ UNCHANGED <<tag, cache_manager, files, cleared, last_post, config>>

\* lines 287-303: the cached token is adopted; return unless marked stale
GetHeadersAdopt(t) ==
    /\ task[t].pc = "gh_adopt"
    /\ tag' = AdoptedTag(task[t].cache_data)
    /\ IF SkipFetch(cf_last)
       THEN SendPost(t, task[t], tag')
       ELSE task' = [task EXCEPT ![t] = [@ EXCEPT !.pc = "gh_fetch"]]
    /\ UNCHANGED <<cf_last, cache_manager, files, cleared, last_post, config>>

\* a failed fetch that ends the call like a page without token
FetchFailedMissing(t, rec) ==
    /\ TokenMissing(t, rec)
    /\ UNCHANGED tag

\* lines 314-320 and 338-339: a status other than 200 or a timeout is logged,
\* _get_headers returns and process_request goes on to the POST
FetchFailed(t, rec) ==
    /\ SendPost(t, rec, tag)
    /\ UNCHANGED tag

\* lines 307-340: the acquisition fetch and what it answers
GetHeadersFetch(t, o) ==
    LET rec == [task[t] EXCEPT !.fetch = o.k, !.request = FetchRequest(solver),
                               !.fetches = @ + 1,
                               !.fetch_returned = (o.k # "client_error"),
                               !.refetch = @ \/ task[t].fetch_returned]
    IN
    /\ task[t].pc = "gh_fetch"
    /\ o \in FetchOutcomes(solver) \cup LongPages
    /\ CASE o.k = "client_error" ->
              /\ rec.faults < fault_budget
              /\ RetryHeaders(t, [rec EXCEPT !.faults = @ + 1], o.timeup)
              /\ UNCHANGED tag
         [] o.k \in {"timeout", "status"} -> FetchFailed(t, rec)
         [] o.k = "page" ->
              /\ tag' = o.token
              /\ task' = [task EXCEPT ![t] =
                            [rec EXCEPT !.pc = "gh_open", !.path = cache_manager,
                                        !.wdata = TokenRecord(o.token)]]
         [] o.k = "nomarker" ->
              /\ TokenMissing(t, rec)
              /\ UNCHANGED tag
         [] o.k = "reply_not_json" ->
              /\ Finish(t, rec, Raised("JSONDecodeError"))
              /\ UNCHANGED tag
         [] o.k = "reply_no_solution" ->
              /\ Finish(t, rec, Raised("KeyError"))
              /\ UNCHANGED tag
    /\ last_post' = IF task'[t].pc = "done" THEN NoPost ELSE last_post
    /\ UNCHANGED <<cf_last, cache_manager, files, cleared, config>>

\* line 333, write_cache(), cache.py line 31: the file is opened for writing
GetHeadersOpen(t) ==
    /\ task[t].pc = "gh_open"
    /\ files' = [files EXCEPT ![task[t].path] = Truncated]
    /\ task' = [task EXCEPT ![t] = [@ EXCEPT !.pc = "gh_write"]]
    /\ UNCHANGED <<tag, cf_last, cache_manager, cleared, last_post, config>>

\* cache.py line 32: the data is written and the file closed
GetHeadersWrite(t) ==
    /\ task[t].pc = "gh_write"
    /\ files' = [files EXCEPT ![task[t].path] = Written(@, task[t].wdata)]
    /\ SendPost(t, task[t], tag)
    /\ UNCHANGED <<tag, cf_last, cache_manager, cleared, last_post, config>>

\* a caught exception that marks the token stale
CaughtExceptionStale(t, k) ==
    /\ Respond(t, task[t], CaughtResult(k))
    /\ cf_last' = "False"

\* lines 102-107: the exception is logged and its message returned
CaughtException(t, k) ==
    /\ Respond(t, task[t], CaughtResult(k))
    /\ UNCHANGED cf_last

\* lines 73-110: what the POST answers
PostResult(t, o) ==
    /\ task[t].pc = "post_wait"
    /\ o \in PostOutcomes
    /\ CASE o.k = "client_error" ->
              /\ task[t].faults < fault_budget
              /\ RetryRequest(t, [task[t] EXCEPT !.faults = @ + 1], o.timeup)
              /\ UNCHANGED cf_last
         [] o.k \in {"timeout", "content_type"} -> CaughtException(t, o.k)
         [] o.k = "response" ->
              LET d == Decode(o.status, o.body)
              IN /\ cf_last' = d.cf_last
                 /\ Respond(t, [task[t] EXCEPT !.status = o.status,
                                                !.stale_events =
                                                    @ + RetryingEvents(o.status)],
                            d.message)
    /\ last_post' = IF o.k = "response"
                     THEN [status |-> o.status, json |-> o.body.json]
                     ELSE IF task'[t].pc = "done" THEN NoPost ELSE last_post
    /\ UNCHANGED <<tag, cache_manager, files, cleared, config>>

\* clear_cache(), lines 342-345, up to cache_exists() of the manager's file
ClearCache(t) ==
    /\ CanStart(t)
    /\ IF cache_manager = "None"
       THEN /\ Finish(t, [IdleTask EXCEPT !.op = "clear_cache"], Returned(Null))
            /\ cleared' = TRUE
       ELSE /\ task' = [task EXCEPT ![t] =
                          [IdleTask EXCEPT !.pc = "cc_remove", !.op = "clear_cache",
                                           !.path = cache_manager,
                                           !.seen = files[cache_manager],
                                           !.ex = CacheExists(files[cache_manager])]]
            /\ UNCHANGED cleared
    /\ UNCHANGED <<tag, cf_last, cache_manager, files, last_post, config>>

\* cache.py, lines 62-63: the file is removed when cache_exists() said so
ClearCacheRemove(t) ==
    /\ task[t].pc = "cc_remove"
    /\ IF ~task[t].ex
       THEN /\ Finish(t, task[t], Returned(Null))
            /\ cleared' = TRUE
            /\ UNCHANGED files
       ELSE IF files[task[t].path].kind = "absent"
       THEN /\ Finish(t, task[t], Raised("FileNotFoundError"))
            /\ UNCHANGED <<files, cleared>>
       ELSE /\ files' = [files EXCEPT ![task[t].path] = NoFile]
            /\ Finish(t, task[t], Returned(Null))
            /\ cleared' = TRUE
    /\ UNCHANGED <<tag, cf_last, cache_manager, last_post, config>>

\* the caller takes the result
Return(t) ==
    /\ task[t].pc = "done"
    /\ task' = [task EXCEPT ![t] = IdleTask]
    /\ UNCHANGED <<tag, cf_last, cache_manager, files, cleared, last_post, config>>

Next ==
    \E t \in Tasks :
        \/ \E lat, lon, zipcode \in BOOLEAN : LocationSearch(t, lat, lon, zipcode)
        \/ PriceLookup(t)
        \/ \E lim \in Limits : PriceLookupService(t, lim)
        \/ ClearCache(t)
        \/ ClearCacheRemove(t)
        \/ ProcessRequest(t)
        \/ GetHeaders(t)
        \/ GetHeadersCache(t)
        \/ GetHeadersAdopt(t)
        \/ \E o \in FetchOutcomes(TRUE) : GetHeadersFetch(t, o)
        \/ GetHeadersOpen(t)
        \/ GetHeadersWrite(t)
        \/ \E o \in PostOutcomes : PostResult(t, o)
        \/ Return(t)

Spec == Init /\ [][Next]_vars

(***************************************************************************)
(* The retries on their own: one client without cache file whose requests  *)
(* may raise aiohttp.ClientError RetryFaults times in one operation, as    *)
(* often as MAX_RETRIES calls of _get_headers in each of MAX_RETRIES calls *)
(* of process_request can.                                                 *)
(***************************************************************************)
RetryFaults == 25

InitRetry ==
    /\ tag = ""
    /\ cf_last = "None"
    /\ cache_manager = "None"
    /\ cache_file = ""
    /\ solver = FALSE
    /\ files = [p \in Paths |-> NoFile]
    /\ task = [t \in Tasks |-> IdleTask]
    /\ cleared = FALSE
    /\ last_post = NoPost
    /\ concurrent = FALSE
    /\ fault_budget = RetryFaults
    /\ call = NoCall

\* price lookups only: the operations differ in what they do with the result,
\* not in process_request
NextRetry ==
    \E t \in Tasks :
        \/ PriceLookup(t)
        \/ ProcessRequest(t)
        \/ GetHeaders(t)
        \/ GetHeadersCache(t)
        \/ GetHeadersAdopt(t)
        \/ \E o \in FetchOutcomes(TRUE) : GetHeadersFetch(t, o)
        \/ GetHeadersOpen(t)
        \/ GetHeadersWrite(t)
        \/ \E o \in PostOutcomes : PostResult(t, o)
        \/ Return(t)

SpecRetry == InitRetry /\ [][NextRetry]_vars



(***************************************************************************)
(* Operations run concurrently on one client: two price lookups that start *)
(* without cache file, and a price lookup beside clear_cache().            *)
(***************************************************************************)
StorePath == CachePath("")
OtherTask == "B"

\* what the requests of concurrent operations are answered with
ShortToken == "1.+Qw4hH/vdM0Kvscg"
WriterFetchOutcomes ==
    {o \in FetchOutcomes(FALSE) : o.k = "page" /\ o.token = ShortToken}
    \cup LongPages
ConcurrentPostOutcomes ==
    {o \in PostOutcomes :
        \/ o.k = "timeout"
        \/ /\ o.k = "response"
           /\ o.status \in {200, 403}
           /\ o.body \in {JsonBody(StationPayload), ChallengeBody}}

(***************************************************************************)
(* The same client where every step that can be taken is taken: no network *)
(* call and no cache-file operation stays pending for ever.  The answers   *)
(* are one of each kind the two retry loops tell apart.                    *)
(***************************************************************************)
LivePostOutcomes ==
    {o \in PostOutcomes :
        o.k = "response" =>
            /\ o.status \in {200, 403}
            /\ o.body \in {JsonBody(StationPayload), ChallengeBody}}

LiveFetchOutcomes ==
    {o \in FetchOutcomes(FALSE) : o.k = "page" => o.token = ShortToken}

NextLive ==
    \E t \in Tasks :
        \/ PriceLookup(t)
        \/ ProcessRequest(t)
        \/ GetHeaders(t)
        \/ GetHeadersCache(t)
        \/ GetHeadersAdopt(t)
        \/ \E o \in LiveFetchOutcomes : GetHeadersFetch(t, o)
        \/ GetHeadersOpen(t)
        \/ GetHeadersWrite(t)
        \/ \E o \in LivePostOutcomes : PostResult(t, o)
        \/ Return(t)

SpecLive == InitRetry /\ [][NextLive]_vars /\ WF_vars(NextLive)

InitConcurrent ==
    /\ tag = ""
    /\ cf_last = "None"
    /\ cache_manager = "None"
    /\ cache_file = ""
    /\ solver = FALSE
    /\ task = [t \in Tasks |-> IdleTask]
    /\ cleared = FALSE
    /\ last_post = NoPost
    /\ concurrent = TRUE
    /\ fault_budget = 0
    /\ call = NoCall

InitWriters ==
    /\ InitConcurrent
    /\ files = [p \in Paths |-> NoFile]

NextWriters ==
    \E t \in Tasks :
        \/ PriceLookup(t)
        \/ GetHeadersCache(t)
        \/ GetHeadersAdopt(t)
        \/ \E o \in WriterFetchOutcomes : GetHeadersFetch(t, o)
        \/ GetHeadersOpen(t)
        \/ GetHeadersWrite(t)
        \/ \E o \in ConcurrentPostOutcomes : PostResult(t, o)
        \/ Return(t)

SpecWriters == InitWriters /\ [][NextWriters]_vars

InitClear ==
    /\ InitConcurrent
    /\ \E T \in PageTokens :
          files = [p \in Paths |-> IF p = StorePath THEN TokenRecord(T) ELSE NoFile]

\* the main task looks prices up, the other one clears the cache
NextClear ==
    \/ PriceLookup(MainTask)
    \/ GetHeadersCache(MainTask)
    \/ GetHeadersAdopt(MainTask)
    \/ \E o \in FetchOutcomes(FALSE) : GetHeadersFetch(MainTask, o)
    \/ GetHeadersOpen(MainTask)
    \/ GetHeadersWrite(MainTask)
    \/ \E o \in ConcurrentPostOutcomes : PostResult(MainTask, o)
    \/ ClearCache(OtherTask)
    \/ ClearCacheRemove(OtherTask)
    \/ \E t \in Tasks : Return(t)

SpecClear == InitClear /\ [][NextClear]_vars

(***************************************************************************)
(* The token store on its own: a token is written, or a file is found, and *)
(* the store is consulted as _get_headers does it.                         *)
(***************************************************************************)
MaxTokenLen == 20

RECURSIVE TokenOfLen(_)
TokenOfLen(n) == IF n = 0 THEN "" ELSE "x" \o TokenOfLen(n - 1)

\* what CSRF_PATTERN may extract: (.*?) matches text of any length
StoreTokens == {TokenOfLen(n) : n \in 0..MaxTokenLen}

\* bytes that are no text, and JSON that is no mapping
BinaryFile == [kind |-> "binary", size |-> CorruptSize, token |-> ""]
ListFile == [kind |-> "list", size |-> CorruptSize, token |-> ""]
StoreContents == InitContents \cup {BinaryFile, ListFile}

\* a read_cache that answers every file with the empty record
ReadCacheAlwaysEmpty(f) == Ok(EmptyDict)

\* read_cache with the read of the file: file.read() in mode "r" decodes the
\* bytes and raises UnicodeDecodeError outside the try of json.loads
ReadCacheResult(f) ==
    CASE f.kind = "binary" -> Raise("UnicodeDecodeError")
      [] f.kind = "list" -> Ok(Arr(<<>>))
      [] OTHER -> Ok(ReadCache(f))

InitStore ==
    /\ tag = ""
    /\ cf_last = "None"
    /\ cache_manager = StorePath
    /\ cache_file = ""
    /\ solver = FALSE
    /\ \E f \in StoreContents : files = [p \in Paths |-> IF p = StorePath THEN f ELSE NoFile]
    /\ task = [t \in Tasks |-> IdleTask]
    /\ cleared = FALSE
    /\ last_post = NoPost
    /\ concurrent = FALSE
    /\ fault_budget = 0
    /\ \/ \E T \in StoreTokens :
             call = [NoCall EXCEPT !.fn = "write_cache", !.node = Str(T)]
       \/ \E fn \in {"cache_exists", "read_cache"} :
             call = [NoCall EXCEPT !.fn = fn]

\* write_cache(json.dumps({TOKEN: T}).encode("utf-8"))
WriteCacheCall ==
    /\ call.fn = "write_cache"
    /\ files' = [files EXCEPT ![StorePath] =
                    Written(Truncated, TokenRecord(call.node.v))]
    /\ call' = [call EXCEPT !.fn = "cache_exists"]
    /\ UNCHANGED <<tag, cf_last, cache_manager, cache_file, solver, task,
                   cleared, concurrent, fault_budget, last_post>>

\* cache_exists(), and line 284 of _get_headers: the file is read when it exists
CacheExistsCall ==
    /\ call.fn = "cache_exists" /\ ~call.done
    /\ LET ex == CacheExists(files[StorePath])
       IN /\ task' = [task EXCEPT ![MainTask] =
                         [@ EXCEPT !.ex = ex, !.seen = files[StorePath]]]
          /\ call' = IF ex THEN [call EXCEPT !.fn = "read_cache"]
                     ELSE [call EXCEPT !.done = TRUE]
    /\ UNCHANGED <<tag, cf_last, cache_manager, cache_file, solver, files,
                   cleared, concurrent, fault_budget, last_post>>

\* read_cache()
ReadCacheCall ==
    /\ call.fn = "read_cache" /\ ~call.done
    /\ LET r == ReadCacheResult(files[StorePath])
       IN call' = IF r.ok
                  THEN [call EXCEPT !.fn = "adopt", !.out = r, !.response = r.val]
                  ELSE [call EXCEPT !.done = TRUE, !.out = r]
    /\ UNCHANGED <<tag, cf_last, cache_manager, cache_file, solver, files, task,
                   cleared, concurrent, fault_budget, last_post>>

\* _get_headers, lines 287-290
AdoptCall ==
    /\ call.fn = "adopt" /\ ~call.done
    /\ tag' = AdoptedTag(call.response)
    /\ call' = [call EXCEPT !.done = TRUE]
    /\ UNCHANGED <<cf_last, cache_manager, cache_file, solver, files, task,
                   cleared, concurrent, fault_budget, last_post>>

NextStore == WriteCacheCall \/ CacheExistsCall \/ ReadCacheCall \/ AdoptCall

SpecStore == InitStore /\ [][NextStore]_vars


(***************************************************************************)
(* The Response Normalizer on its own: each function called once on an     *)
(* argument drawn from the payloads below.                                 *)
(***************************************************************************)
\* longest results list of a search payload, and the limits tried
MaxResults == 3
MaxNegLimit == 2
MaxLimit == 4

\* values of the "credit" entry of a price node
CreditValues ==
    {Null}
    \cup {Obj(p @@ n @@ u) :
              p \in {<<>>, [price |-> Num(0)], [price |-> Num(327)]},
              n \in {<<>>, [nickname |-> Null], [nickname |-> Str("Flemmit")]},
              u \in {<<>>, [postedTime |-> Str("2024-09-06T09:54:05.489Z")]}}

\* values of the "cash" entry of a price node
CashValues ==
    {Null}
    \cup {Obj(p @@ n) :
              p \in {<<>>, [price |-> Num(0)], [price |-> Num(317)]},
              n \in {<<>>, [nickname |-> Str("Flemmit")]}}

\* price nodes, each entry present or absent
PriceNodes ==
    {Obj([fuelProduct |-> Str("regular_gas")] @@ c @@ k) :
         c \in {<<>>} \cup {[credit |-> v] : v \in CreditValues},
         k \in {<<>>} \cup {[cash |-> v] : v \in CashValues}}

StationPool ==
    {StationWith("187725", <<>>, <<NodeRegular>>),
     StationWith("187726", <<>>, <<NodeDiesel>>)}

TrendUnitedStates ==
    Obj([today |-> Num(311), todayLow |-> Num(0), areaName |-> Str("United States")])

TrendLists == {<<>>, <<TrendArizona>>, <<TrendArizona, TrendUnitedStates>>}

SearchWith(results, trends) ==
    Obj([data |-> Obj([locationBySearchTerm |->
        Obj([stations |-> Obj([results |-> Arr(results)]),
             trends |-> Arr(trends)])])])

SearchPayloads ==
    {SearchWith(results, trends) :
         results \in UNION {[1..n -> StationPool] : n \in 0..MaxResults},
         trends \in TrendLists}

NormalizerCalls ==
    {[NoCall EXCEPT !.fn = "_format_price_node", !.node = node] :
         node \in PriceNodes}
    \cup {[NoCall EXCEPT !.fn = "_parse_trends", !.response = response] :
              response \in SearchPayloads}
    \cup {[NoCall EXCEPT !.fn = f, !.response = response, !.limit = lim] :
              f \in {"_parse_results", "price_lookup_service"},
              response \in SearchPayloads, lim \in -MaxNegLimit..MaxLimit}

InitNormalizer ==
    /\ InitCommon
    /\ cache_file = ""
    /\ solver = FALSE
    /\ files = [p \in Paths |-> NoFile]
    /\ concurrent = FALSE
    /\ fault_budget = MaxFaults
    /\ call \in NormalizerCalls

\* the call returns (or raises) result
CallResult(result) ==
    /\ ~call.done
    /\ call' = [call EXCEPT !.done = TRUE, !.out = result]
    /\ UNCHANGED <<tag, cf_last, cache_manager, cache_file, solver, files, task,
                   cleared, concurrent, fault_budget, last_post>>

\* _format_price_node(price_node)
FormatPriceNodeCall ==
    /\ call.fn = "_format_price_node"
    /\ CallResult(Ok(FormatPriceNode(call.node)))

\* _parse_results(response, limit)
ParseResultsCall ==
    /\ call.fn = "_parse_results"
    /\ CallResult(ParseResults(call.response, call.limit))

\* _parse_trends(response)
ParseTrendsCall ==
    /\ call.fn = "_parse_trends"
    /\ CallResult(ParseTrends(call.response))

\* price_lookup_service, lines 232-240, on a response without error keys
NormalizeSearchCall ==
    /\ call.fn = "price_lookup_service"
    /\ CallResult(NormalizeSearch(call.response, call.limit))

NextNormalizer ==
    \/ FormatPriceNodeCall
    \/ ParseResultsCall
    \/ ParseTrendsCall
    \/ NormalizeSearchCall

SpecNormalizer == InitNormalizer /\ [][NextNormalizer]_vars

(***************************************************************************)
(* Properties.                                                             *)
(***************************************************************************)
PublicOps == {"location_search", "price_lookup", "price_lookup_service"}
PriceOps == {"price_lookup", "price_lookup_service"}
Done(t) == task[t].pc = "done"
MissingTokenResult == Obj([error |-> Str(MISSING_TOKEN)])
CompleteArgs(a) == (a.lat /\ a.lon) \/ a.zipcode

\* C1: the only exceptions a caller of location_search, price_lookup or
\* price_lookup_service observes are MissingSearchData, LibraryError and APIError.
C1_OnlyDeclaredExceptions ==
    \A t \in Tasks :
        (Done(t) /\ task[t].op \in PublicOps /\ task[t].out.st = "raise")
            => task[t].out.exc \in {"MissingSearchData", "LibraryError", "APIError"}

\* C2: location_search without a complete (lat, lon) pair and without a zipcode
\* raises MissingSearchData at once, touching neither the token store nor the
\* network nor the client's token, freshness flag and cache; with a complete pair
\* or a zipcode it does not raise MissingSearchData, and nothing else ever does.
C2_MissingSearchData ==
    [][\A t \in Tasks :
          /\ (task[t].pc = "idle" /\ task'[t].op = "location_search")
                => IF CompleteArgs(task'[t].args)
                   THEN task'[t].out.st = "none" /\ task'[t].pc # "done"
                   ELSE /\ task'[t] = [IdleTask EXCEPT
                                         !.pc = "done", !.op = "location_search",
                                         !.args = task'[t].args,
                                         !.out = Raised("MissingSearchData")]
                        /\ UNCHANGED <<tag, cf_last, cache_manager, files, cleared>>
          /\ (task'[t].out.exc = "MissingSearchData"
                /\ task[t].out.exc # "MissingSearchData")
                => /\ task[t].pc = "idle"
                   /\ task'[t].op = "location_search"
                   /\ ~CompleteArgs(task'[t].args)]_vars

\* a half-given coordinate pair is refused by a client that holds a token
C2_Witness ==
    \E t \in Tasks :
        /\ Done(t)
        /\ task[t].out = Raised("MissingSearchData")
        /\ task[t].args.lat /\ ~task[t].args.lon
        /\ tag # "" /\ cf_last = "True"

\* C3 as stated: when the acquisition fetch answers 200 without a token marker,
\* process_request issues no GraphQL POST in that call and returns
\* {"error": "Missing Token"}.
C3_NoPostInCall ==
    \A t \in Tasks :
        task[t].fetch = "nomarker"
            => /\ task[t].resp = MissingTokenResult
               /\ ~task[t].posted /\ ~task[t].posted_before

\* C3 amended: after such a fetch process_request issues no GraphQL POST (the
\* attempt that fetched sends none) and returns {"error": "Missing Token"};
\* CSRFTokenMissing never reaches the caller, and the price operations raise
\* LibraryError.
C3_MissingTokenSkipsPost ==
    \A t \in Tasks :
        /\ task[t].out.exc # "CSRFTokenMissing"
        /\ task[t].fetch = "nomarker"
              => /\ Done(t)
                 /\ ~task[t].posted
                 /\ task[t].resp = MissingTokenResult
                 /\ task[t].op \in PriceOps => task[t].out = Raised("LibraryError")

\* the marker is missing in the attempt that follows a POST broken by the transport
C3_Witness ==
    \E t \in Tasks :
        /\ task[t].fetch = "nomarker"
        /\ task[t].op = "price_lookup"
        /\ task[t].out = Raised("LibraryError")
        /\ task[t].posted_before

\* C4: price_lookup and price_lookup_service raise LibraryError for a result with
\* the key "error", otherwise APIError for one with the key "errors", and
\* normalize only a result with neither.
C4_ClassifyBeforeNormalize ==
    \A t \in Tasks :
        (Done(t) /\ task[t].op \in PriceOps /\ task[t].resp # Null)
            => /\ Has(task[t].resp, "error") => task[t].out = Raised("LibraryError")
               /\ (~Has(task[t].resp, "error") /\ Has(task[t].resp, "errors"))
                     => task[t].out = Raised("APIError")
               /\ task[t].normalized
                     => ~Has(task[t].resp, "error") /\ ~Has(task[t].resp, "errors")

\* the message the fallback order names for an "errors" value
C5_FallbackMessage(errors) ==
    IF Has(errors, "message") THEN errors.v["message"]
    ELSE IF errors.t = "arr" /\ Len(errors.v) > 0 /\ Has(errors.v[1], "message")
    THEN errors.v[1].v["message"]
    ELSE Str(GENERIC_ERROR)

\* C5: for a status-200 JSON response with an "errors" value of any shape both
\* price operations raise APIError, logging errors.message, else
\* errors[0].message, else the generic message.
C5_ErrorsAlwaysApiError ==
    \A t \in Tasks :
        (Done(t) /\ task[t].op \in PriceOps /\ task[t].status = 200
            /\ Has(task[t].resp, "errors") /\ ~Has(task[t].resp, "error"))
            => /\ task[t].out.exc = "APIError"
               /\ task[t].logged = C5_FallbackMessage(task[t].resp.v["errors"])

\* price_lookup_service got status 200 with {"errors": {"message": M}}
C6_Case(t) ==
    /\ Done(t)
    /\ task[t].op = "price_lookup_service"
    /\ task[t].status = 200
    /\ Has(task[t].resp, "errors") /\ ~Has(task[t].resp, "error")
    /\ Has(task[t].resp.v["errors"], "message")

\* C6 as stated: the APIError raised then carries the message M.
C6_ApiErrorCarriesMessage ==
    \A t \in Tasks :
        C6_Case(t)
            => /\ task[t].out.exc = "APIError"
               /\ \E i \in 1..Len(task[t].out.args) :
                      task[t].out.args[i] = task[t].resp.v["errors"].v["message"].v

\* C6 amended: price_lookup_service then raises APIError and logs the message M;
\* the APIError raised has no arguments, so it does not carry M.
C6_ApiErrorLogsMessage ==
    \A t \in Tasks :
        C6_Case(t)
            => /\ task[t].out = Raised("APIError")
               /\ task[t].logged = task[t].resp.v["errors"].v["message"]

C6_Witness ==
    \E t \in Tasks :
        /\ C6_Case(t)
        /\ task[t].logged = Str("Fake Error")
        /\ task[t].out.exc = "APIError"

\* C7: location_search returns what process_request returned, for success and for
\* every error result; it never raises LibraryError or APIError and never
\* normalizes.
C7_LocationSearchReturnsResult ==
    \A t \in Tasks :
        task[t].op = "location_search"
            => /\ task[t].out.exc \notin {"LibraryError", "APIError"}
               /\ ~task[t].normalized
               /\ (Done(t) /\ task[t].resp # Null)
                     => task[t].out = Returned(task[t].resp)

\* a non-200 answer comes back as the error result
C7_Witness ==
    \E t \in Tasks :
        /\ Done(t)
        /\ task[t].op = "location_search"
        /\ task[t].status = 404
        /\ Has(task[t].resp, "error")
        /\ task[t].out = Returned(task[t].resp)

\* C8: the first operation after clear_cache() fetches the landing page (or asks
\* the solver) before its GraphQL POST.
C8_ClearForcesAcquisition ==
    \A t \in Tasks :
        (task[t].after_clear /\ task[t].posted /\ ~task[t].posted_before)
            => task[t].fetch # "none"

SmallSeen(t) ==
    /\ task[t].pc # "idle"
    /\ task[t].seen.kind # "absent"
    /\ task[t].seen.size < MIN_CACHE_SIZE

\* C9: a cache file smaller than 30 bytes is treated as absent: cache_exists()
\* returns false, its content is not read, and the operation fetches the landing
\* page (or asks the solver) before its GraphQL POST.
C9_SmallCacheAbsent ==
    \A t \in Tasks :
        SmallSeen(t)
            => /\ ~task[t].ex
               /\ task[t].pc # "gh_adopt"
               /\ task[t].posted => task[t].fetch # "none"

C9_Witness ==
    \E t \in Tasks :
        /\ SmallSeen(t)
        /\ task[t].op = "price_lookup"
        /\ task[t].posted
        /\ task[t].fetch = "page"
        /\ task[t].sent \in PageTokens

\* C10: a corrupt cache file (larger than 30 bytes, unparsable or without the
\* token field) is treated as absent: the operation fetches the token before its
\* GraphQL POST and does not POST with an empty token.
C10_CorruptCacheRefetched ==
    \A t \in Tasks :
        (/\ task[t].op \in PublicOps
         /\ task[t].seen.kind \in {"garbage", "json"}
         /\ task[t].seen.size > MIN_CACHE_SIZE
         /\ task[t].posted)
            => task[t].fetch # "none" /\ task[t].sent # ""


\* C11: a client constructed with a cache_file keeps its cache manager, and every
\* cache call of its operations, on that file; the default file is the cache of
\* clients constructed without cache_file.
C11_CustomPathOnly ==
    /\ cache_manager \in {"None", CachePath(cache_file)}
    /\ \A t \in Tasks : task[t].path \in {"None", CachePath(cache_file)}

\* the acquisition request the claim names for a client with / without a solver
C12_Expected ==
    IF solver
    THEN [method |-> "post", url |-> "solver", cmd |-> "request.get",
          target |-> "GB_HOME_URL", maxTimeout |-> "timeout",
          searched |-> "solution.response"]
    ELSE [method |-> "get", url |-> "GB_HOME_URL", cmd |-> "", target |-> "",
          maxTimeout |-> "", searched |-> "text"]

\* C12: with a solver configured every acquisition is a POST to the solver with
\* cmd "request.get", the landing-page URL and the timeout, and the token is
\* searched in solution.response of the reply; without a solver every acquisition
\* is a GET of the landing page, and no solver reply is ever parsed.
C12_SolverOrDirect ==
    \A t \in Tasks :
        /\ task[t].fetch # "none" => task[t].request = C12_Expected
        /\ task[t].fetch \in {"reply_not_json", "reply_no_solution"} => solver
        /\ task[t].pc \in {"gh_write", "post_wait"} /\ task[t].fetch = "page"
              => tag \in PageTokens

\* the solver's reply carried the page whose token goes out with the POST
C12_Witness ==
    \E t \in Tasks :
        /\ solver
        /\ task[t].fetch = "page"
        /\ task[t].request.method = "post"
        /\ task[t].request.searched = "solution.response"
        /\ task[t].pc = "post_wait"
        /\ task[t].sent \in PageTokens

\* price_lookup gets status 403 with the challenge page to the only POST so far
C13_Case(t) ==
    /\ task[t].op = "price_lookup"
    /\ task[t].status = 403
    /\ task[t].resp = Obj([error |-> ChallengeBody.val])
    /\ ~task[t].posted_before

\* C13 as stated: price_lookup then marks the token stale and fails with
\* LibraryError after the retries are exhausted (MAX_RETRIES calls of
\* process_request), with one "Retrying request..." event per POST.
C13_FailsAfterExhaustingRetries ==
    [][\A t \in Tasks :
          (task[t].pc = "post_wait" /\ C13_Case(t)')
              => /\ task'[t].out = Raised("LibraryError")
                 /\ cf_last' = "False"
                 /\ task'[t].stale_events = 1
                 /\ task[t].pr_tries = MAX_RETRIES]_vars

\* C13 amended: price_lookup then marks the token stale and fails with
\* LibraryError at once: the 403 answer is returned, no POST is retried, and
\* "Retrying request..." is logged exactly once, for the one POST made.
C13_FailsOnFirstForbidden ==
    \A t \in Tasks :
        /\ task[t].status = 403 => Done(t)
        /\ C13_Case(t)
              => /\ task[t].out = Raised("LibraryError")
                 /\ cf_last = "False"
                 /\ task[t].posted
                 /\ task[t].stale_events = 1

C13_Witness ==
    \E t \in Tasks :
        /\ C13_Case(t)
        /\ Done(t)
        /\ task[t].fetch = "page"
        /\ task[t].stale_events = 1


\* the entry k of a JSON object, null when there is none or no object
Entry(x, k) == IF x.t = "obj" /\ k \in DOMAIN x.v THEN x.v[k] ELSE Null

\* _format_price_node has returned
FormatDone == call.fn = "_format_price_node" /\ call.done

\* C14: the record of a price node has price = the credit price when that is
\* given and not 0, else null (never 0); credit = the credit nickname and
\* last_updated = the credit postedTime, null without a credit sub-object;
\* cash_price = the cash price when that is given and not 0.
C14_PriceRecord ==
    FormatDone =>
        LET credit == Entry(call.node, "credit")
            cash == Entry(call.node, "cash")
            record == call.out.val.v
        IN /\ record["price"] =
                  (IF Entry(credit, "price") \in {Null, Num(0)} THEN Null
                   ELSE credit.v["price"])
           /\ record["price"] # Num(0)
           /\ record["credit"] = Entry(credit, "nickname")
           /\ record["last_updated"] = Entry(credit, "postedTime")
           /\ credit = Null => record["credit"] = Null /\ record["last_updated"] = Null
           /\ Entry(cash, "price") \notin {Null, Num(0)}
                 => record["cash_price"] = cash.v["price"]

\* a credit price of 0 comes out as null beside a cash price that is kept
C14_Witness ==
    /\ FormatDone
    /\ Entry(Entry(call.node, "credit"), "price") = Num(0)
    /\ Entry(Entry(call.node, "credit"), "nickname") = Str("Flemmit")
    /\ Entry(Entry(call.node, "cash"), "price") = Num(317)
    /\ call.out.val.v["price"] = Null
    /\ call.out.val.v["cash_price"] = Num(317)

ParseDone == call.fn = "_parse_results" /\ call.done
Upstream == call.response.v["data"].v["locationBySearchTerm"].v["stations"].v["results"].v
Min(a, b) == IF a < b THEN a ELSE b

\* C16: for a limit >= 0 _parse_results returns min(limit, n) records, the
\* normalizations of the first min(limit, n) upstream results in their order.
C16_FirstLimitResults ==
    (ParseDone /\ call.limit >= 0) =>
        /\ call.out.ok
        /\ Len(call.out.val.v) = Min(call.limit, Len(Upstream))
        /\ \A i \in 1..Len(call.out.val.v) :
               /\ call.out.val.v[i].v["station_id"] = Upstream[i].v["id"]
               /\ <<call.out.val.v[i]>> = ParseStations(<<Upstream[i]>>)

\* a limit below the number of results cuts the list
C16_Witness ==
    /\ ParseDone
    /\ call.limit = 2
    /\ Len(Upstream) = 3
    /\ Len(call.out.val.v) = 2
    /\ Upstream[1] # Upstream[2]

\* C17: for a limit <= 0 _parse_results returns the empty sequence.
C17_NonPositiveLimitEmpty ==
    (ParseDone /\ call.limit <= 0) => call.out = Ok(Arr(<<>>))

\* C18: a successful price_lookup_service result has the results sequence and the
\* trend sequence, one {average_price, lowest_price, area} record per upstream
\* trend in upstream order, the empty sequence for an empty trends list.
C18_TrendAlwaysPresent ==
    (call.fn = "price_lookup_service" /\ call.done /\ call.out.ok) =>
        LET trends == call.response.v["data"].v["locationBySearchTerm"].v["trends"].v
            value == call.out.val.v
        IN /\ {"results", "trend"} \subseteq DOMAIN value
           /\ value["trend"].t = "arr"
           /\ Len(value["trend"].v) = Len(trends)
           /\ \A i \in 1..Len(trends) :
                  value["trend"].v[i] =
                      Obj([average_price |-> trends[i].v["today"],
                           lowest_price |-> trends[i].v["todayLow"],
                           area |-> trends[i].v["areaName"]])


\* the operation after the one whose POST got the response last_post has found a
\* token record in the cache at its first look and has sent its POST
C19_Case(t) ==
    /\ task[t].pc = "post_wait"
    /\ task[t].pr_tries = 1 /\ task[t].gh_tries = 1
    /\ task[t].ex
    /\ task[t].seen.kind = "record"

\* C19 as stated: after a POST answered with status 200, whatever the body, the
\* next operation, finding a valid cache record, makes no acquisition fetch.
C19_FreshAfterAny200 ==
    \A t \in Tasks :
        (last_post.status = 200 /\ C19_Case(t)) => task[t].fetch = "none"

\* C19 amended: after a POST answered with status 200 and a body that is JSON,
\* the token is marked fresh and the next operation, finding a valid cache
\* record, makes no acquisition fetch and sends the cached token.
C19_FreshAfterJson200 ==
    \A t \in Tasks :
        /\ (Done(t) /\ task[t].status = 200 /\ last_post.json) => cf_last = "True"
        /\ (last_post.status = 200 /\ last_post.json /\ C19_Case(t))
              => /\ task[t].fetch = "none"
                 /\ task[t].sent = task[t].seen.token

C19_Witness ==
    \E t \in Tasks :
        /\ last_post = [status |-> 200, json |-> TRUE]
        /\ C19_Case(t)
        /\ task[t].fetch = "none"
        /\ task[t].sent \in PageTokens

\* C20: a POST answered with status 403, whatever the body, marks the token stale
\* and ends the call without another acquisition; the next operation fetches
\* (landing page or solver) before its POST even when the cache holds a valid
\* token record.
C20_StaleAfterForbidden ==
    \A t \in Tasks :
        /\ task[t].status = 403 => Done(t) /\ cf_last = "False"
        /\ (last_post.status = 403 /\ task[t].pc = "post_wait")
              => task[t].fetch # "none"
        /\ (last_post.status = 403 /\ task[t].pc = "gh_adopt") => ~SkipFetch(cf_last)

\* after a 403 with a JSON body the next operation found a valid record and still
\* fetched a page before its POST
C20_Witness ==
    \E t \in Tasks :
        /\ last_post = [status |-> 403, json |-> TRUE]
        /\ task[t].pc = "post_wait"
        /\ task[t].ex /\ task[t].seen.kind = "record"
        /\ task[t].fetch = "page"

\* C21: a POST answered with status 403 gives, whatever the body, a result with
\* the key "error", and the price operations raise LibraryError.
C21_ForbiddenAlwaysError ==
    \A t \in Tasks :
        (Done(t) /\ task[t].status = 403)
            => /\ Has(task[t].resp, "error")
               /\ task[t].op \in PriceOps => task[t].out = Raised("LibraryError")

\* the JSON values and the text the failed statuses are answered with
ErrorJson == {b.val : b \in {e \in ErrorBodies : e.json}}
ErrorText == {b.val : b \in {e \in ErrorBodies : ~e.json}}
OtherStatus(t) == task[t].status \notin {0, 200, 403}

\* C22: a POST answered with a status other than 200 and 403 returns the body
\* under the key "error" (a body that is no JSON is wrapped twice), marks the
\* token stale, makes the price operations raise LibraryError, and the next
\* operation fetches a token before its POST.
C22_OtherStatusWrapped ==
    \A t \in Tasks :
        /\ (Done(t) /\ OtherStatus(t))
              => /\ Has(task[t].resp, "error")
                 /\ last_post.json => task[t].resp.v.error \in ErrorJson
                 /\ ~last_post.json
                       => /\ Has(task[t].resp.v.error, "error")
                          /\ task[t].resp.v.error.v.error \in ErrorText
                 /\ cf_last = "False"
                 /\ task[t].op \in PriceOps
                       => task[t].out = Raised("LibraryError")
                 /\ task[t].op = "location_search"
                       => task[t].out = Returned(task[t].resp)
        /\ (last_post.status \notin {0, 200, 403} /\ task[t].pc = "post_wait")
              => task[t].fetch # "none"

\* a price lookup answered 404 with a text body
C22_Witness ==
    \E t \in Tasks :
        /\ Done(t) /\ task[t].status = 404 /\ ~last_post.json
        /\ task[t].op = "price_lookup"
        /\ task[t].resp = Obj([error |-> Obj([error |-> ChallengeBody.val])])
        /\ task[t].out = Raised("LibraryError")

\* the operation ended with a response whose body is no JSON
TextAnswered(t) == Done(t) /\ task[t].status # 0 /\ ~last_post.json

\* C23 as stated: a body that is no JSON returns, for every status, the mapping
\* of "error" to the raw text.
C23_TextBodyOneWrap ==
    \A t \in Tasks :
        TextAnswered(t)
            => /\ Has(task[t].resp, "error")
               /\ task[t].resp.v.error \in ErrorText
               /\ cf_last = "False"

\* C23 amended: a body that is no JSON marks the token stale for every status
\* and makes the price operations raise LibraryError; the result maps "error" to
\* the raw text for status 200 and 403, and to that mapping for other statuses.
C23_TextBodyError ==
    \A t \in Tasks :
        TextAnswered(t)
            => /\ Has(task[t].resp, "error")
               /\ cf_last = "False"
               /\ task[t].op \in PriceOps => task[t].out = Raised("LibraryError")
               /\ task[t].status \in {200, 403}
                     => task[t].resp.v.error \in ErrorText
               /\ task[t].status \notin {200, 403}
                     => /\ Has(task[t].resp.v.error, "error")
                        /\ task[t].resp.v.error.v.error \in ErrorText

\* a price lookup answered 200 with a text body
C23_Witness ==
    \E t \in Tasks :
        /\ TextAnswered(t)
        /\ task[t].status = 200
        /\ task[t].op = "price_lookup"
        /\ task[t].resp = Obj([error |-> ChallengeBody.val])
        /\ task[t].out = Raised("LibraryError")

\* the results of a timeout and of a ContentTypeError of the POST
CaughtResults ==
    {Obj([error |-> Str("Timeout while updating")]),
     Obj([error |-> Exc("ContentTypeError")])}
\* the POST of the last attempt got no response and its exception was caught
Caught(t) ==
    /\ Done(t) /\ task[t].posted /\ task[t].status = 0
    /\ task[t].out # Raised("ClientError")

\* C24 as stated: a timeout or ContentTypeError of the POST is returned as an
\* error result and exactly one POST was attempted in the call.
C24_ExactlyOnePost ==
    \A t \in Tasks :
        Caught(t) => task[t].resp \in CaughtResults /\ task[t].posts = 1

\* C24 amended: a timeout or ContentTypeError of the POST ends the call with
\* the error result (returned by location_search, LibraryError in the price
\* operations), never with the exception, and no POST follows it; earlier
\* attempts of the call made a POST only when they ended in aiohttp.ClientError.
C24_CaughtEndsCall ==
    \A t \in Tasks :
        /\ Caught(t)
              => /\ task[t].resp \in CaughtResults
                 /\ task[t].op \in PriceOps
                       => task[t].out = Raised("LibraryError")
                 /\ task[t].op = "location_search"
                       => task[t].out = Returned(task[t].resp)
        /\ (task[t].status = 0 /\ task[t].resp \in CaughtResults)
              => Done(t) /\ task[t].posted
        /\ (Done(t) /\ task[t].out.st = "raise")
              => task[t].out.exc \notin {"TimeoutError", "ServerTimeoutError",
                                         "ContentTypeError"}

\* a timeout in the second attempt, after a first POST that raised
C24_Witness ==
    \E t \in Tasks :
        /\ Caught(t)
        /\ task[t].resp = Obj([error |-> Str("Timeout while updating")])
        /\ task[t].posts = 2

\* C25: a response, whatever its status, ends the call of process_request: no
\* POST follows it; each attempt sends at most one POST and an attempt after
\* the first is made only after an aiohttp.ClientError was raised.
C25_StatusNeverRetried ==
    \A t \in Tasks :
        /\ task[t].status # 0 => Done(t) /\ task[t].posted
        /\ ~Done(t) => /\ task[t].posts <= task[t].pr_tries
                       /\ task[t].pr_tries <= task[t].faults + 1

\* a first POST that raised, a second one answered 403 that ended the call
C25_Witness ==
    \E t \in Tasks : Done(t) /\ task[t].status = 403 /\ task[t].posts = 2

\* C26: within one call of process_request the POST is attempted at most
\* MAX_RETRIES times, however many attempts raised aiohttp.ClientError.
C26_AtMostFivePosts ==
    \A t \in Tasks :
        /\ task[t].posts <= MAX_RETRIES
        /\ task[t].pr_tries <= MAX_RETRIES

\* the fifth POST raised and the call ended with the exception
C26_Witness ==
    \E t \in Tasks :
        /\ Done(t)
        /\ task[t].posts = 5
        /\ task[t].out = Raised("ClientError")

\* C27 as stated: within one operation the landing page (or solver) is fetched
\* at most MAX_RETRIES times in total, and fetched again only after the
\* previous fetch raised aiohttp.ClientError.
C27_AtMostFiveFetches ==
    \A t \in Tasks :
        /\ task[t].fetches <= MAX_RETRIES
        /\ ~task[t].refetch

\* the calls of _get_headers in the attempt that follow the first
InRetriedHeaders(t) ==
    \/ task[t].pc = "gh"
    \/ task[t].pc \in {"gh_cache", "gh_adopt", "gh_fetch"} /\ task[t].gh_tries >= 2

\* C27 amended: within one attempt of process_request _get_headers is called at
\* most MAX_RETRIES times, each call fetching at most once, and called again
\* only after the fetch raised aiohttp.ClientError; over the attempts of one
\* operation that makes at most MAX_RETRIES * MAX_RETRIES fetches.
C27_FiveFetchesPerAttempt ==
    \A t \in Tasks :
        /\ task[t].gh_tries <= MAX_RETRIES
        /\ InRetriedHeaders(t) => task[t].fetch = "client_error"
        /\ ~Done(t) => task[t].fetches <= MAX_RETRIES * task[t].pr_tries
        /\ task[t].fetches <= MAX_RETRIES * MAX_RETRIES

\* an operation that fetched MAX_RETRIES * MAX_RETRIES times, and again after a
\* fetch that had returned
C27_Witness ==
    \E t \in Tasks :
        /\ Done(t)
        /\ task[t].fetches = MAX_RETRIES * MAX_RETRIES
        /\ task[t].refetch

\* the call found a token record in its manager's file, and the client has
\* handled no response yet or the latest POST was answered 200 with JSON
C28_Case(t) ==
    /\ task[t].pc = "post_wait"
    /\ ~task[t].posted_before
    /\ ValidRecord(task[t].seen)
    /\ cf_last = "None" \/ last_post = [status |-> 200, json |-> TRUE]

\* C28: with a valid token record in the store and no request made yet, or the
\* previous POST answered 200 with a JSON body, the operation makes no
\* acquisition fetch, does not write the store, and sends the cached token.
C28_NoFetchWhenCached ==
    \A t \in Tasks :
        C28_Case(t)
            => /\ task[t].fetches = 0
               /\ task[t].fetch = "none"
               /\ files[cache_manager] = task[t].seen
               /\ tag = task[t].seen.token
               /\ task[t].sent = task[t].seen.token

\* the first operation of a client found a token record and sent its token
C28_Witness ==
    \E t \in Tasks :
        /\ C28_Case(t)
        /\ cf_last = "None" /\ last_post = NoPost
        /\ task[t].fetches = 0
        /\ task[t].sent \in PageTokens

\* the acquisition of the attempt found a token
Acquired(t) == task[t].pc = "post_wait" /\ task[t].fetch = "page"

\* C29: after an acquisition fetch that found token T, the in-memory token is
\* T, the store holds the record of T, and the POST of the same call carries T.
C29_TokenPersistedAndSent ==
    \A t \in Tasks :
        Acquired(t)
            => /\ tag \in PageTokens
               /\ task[t].sent = tag
               /\ files[cache_manager].kind = "record"
               /\ ReadCache(files[cache_manager]) = Obj(TOKEN :> Str(tag))

\* a token fetched over an older record of the other token
C29_Witness ==
    \E t \in Tasks :
        /\ Acquired(t)
        /\ task[t].seen.kind = "record"
        /\ task[t].seen.token # tag
        /\ task[t].sent = tag

\* C30: an acquisition that found a token marks the token fresh, so that after
\* a POST that ended in a timeout or a ContentTypeError the next operation
\* makes no acquisition fetch.
C30_AcquisitionMarksFresh ==
    \A t \in Tasks :
        /\ Acquired(t) => cf_last = "True"
        /\ (Caught(t) /\ task[t].fetch = "page") => SkipFetch(cf_last)

\* the file of path p changes in the step
Changed(p) == files'[p] # files[p]

\* C31: the token store is written only by an acquisition whose fetch found a
\* token, and with the record of that token alone; every other outcome of the
\* fetch and every outcome of the POST leave the file as it is (clear_cache
\* removes it).
C31_OnlyTokenCached ==
    [][\A p \in Paths :
          Changed(p) =>
             \E t \in Tasks :
                /\ task[t].path = p
                /\ \/ /\ task[t].pc = "gh_open"
                      /\ task[t].fetch = "page"
                      /\ files'[p] = Truncated
                   \/ /\ task[t].pc = "gh_write"
                      /\ task[t].fetch = "page"
                      /\ files'[p].kind = "record"
                      /\ ReadCache(files'[p]) = Obj(TOKEN :> Str(tag))
                   \/ /\ task[t].pc = "cc_remove"
                      /\ files'[p] = NoFile]_vars

\* a price lookup that acquired a token and was answered with the station
\* payload: the file holds the record of the token
C31_Witness ==
    \E t \in Tasks :
        /\ Done(t)
        /\ task[t].op = "price_lookup"
        /\ task[t].fetch = "page"
        /\ task[t].status = 200
        /\ task[t].resp = StationPayload
        /\ ReadCache(files[cache_manager]) = Obj(TOKEN :> Str(tag))

\* the step ends the POST of task t
PostEnds(t) == task[t].pc = "post_wait" /\ task'[t].pc = "done"

\* the step is a fetch of task t that timed out or was answered with a status
\* other than 200
FailedFetchStep(t) ==
    /\ task[t].pc = "gh_fetch"
    /\ task'[t].fetches = task[t].fetches + 1
    /\ task'[t].fetch \in {"timeout", "status"}

\* C32: an acquisition fetch that times out or is answered with a status other
\* than 200 raises nothing, writes nothing and leaves the in-memory token as it
\* was; the POST is sent with that token, and the result of the operation is
\* that of the POST.
C32_FailedFetchStillPosts ==
    [][\A t \in Tasks :
          /\ FailedFetchStep(t)
                => /\ tag' = tag
                   /\ files' = files
                   /\ task'[t].pc = "post_wait"
                   /\ task'[t].sent = tag
                   /\ task'[t].out = NoOutcome
          /\ (PostEnds(t) /\ task[t].fetch \in {"timeout", "status"})
                => \/ task'[t].out = Raised("ClientError")
                   \/ task'[t].out = OperationResult(task'[t], task'[t].resp).out]_vars

\* after a fetch that timed out the POST was sent with the empty token
C32_Witness ==
    \E t \in Tasks :
        /\ task[t].pc = "post_wait"
        /\ task[t].fetch = "timeout"
        /\ task[t].sent = ""
        /\ files[cache_manager] = NoFile

\* C37: a POST that ends in a timeout or a ContentTypeError leaves the
\* freshness flag as it was; a response sets it, fresh on status 200 with a
\* JSON body and stale otherwise.
C37_CaughtKeepsFlag ==
    [][\A t \in Tasks :
          /\ (PostEnds(t) /\ task'[t].status = 0
                 /\ task'[t].out # Raised("ClientError"))
                => /\ task'[t].resp \in CaughtResults
                   /\ cf_last' = cf_last
          /\ (PostEnds(t) /\ task'[t].status # 0)
                => cf_last' = IF task'[t].status = 200 /\ last_post'.json
                              THEN "True" ELSE "False"]_vars

\* a POST that timed out while the token was marked fresh
C37_Witness ==
    \E t \in Tasks :
        /\ Caught(t)
        /\ task[t].resp = Obj([error |-> Str("Timeout while updating")])
        /\ cf_last = "True"

\* read_cache has been called and has ended
ReadEnded == call.fn = "adopt" \/ (call.fn = "read_cache" /\ call.done)

\* the file is missing or its content is no JSON
Unparsable(f) == f.kind \in {"absent", "garbage", "binary"}

\* C33: read_cache raises nothing on a missing file or on content that is no
\* JSON; it returns the empty record, and the acquirer then sets the in-memory
\* token to the empty string.
C33_ReadCacheNeverRaises ==
    /\ (ReadEnded /\ Unparsable(files[StorePath])) => call.out = Ok(EmptyDict)
    /\ (call.done /\ Unparsable(files[StorePath]) /\ task[MainTask].ex)
          => call.fn = "adopt" /\ tag = ""

\* the call wrote a token and has consulted the store after it
RoundTrip == call.node # Null /\ call.done

BothAcquired ==
    \A t \in Tasks : Done(t) /\ task[t].fetch = "page"

\* C34 as stated: once two concurrent operations that both acquired a token
\* have ended, the store holds one complete token record and the in-memory
\* token equals the persisted one.
C34_LastWriterConsistent ==
    BothAcquired
        => /\ files[StorePath].kind = "record"
           /\ tag = files[StorePath].token

WriterTokens == {ShortToken, LongToken}

\* C34 amended: once both have ended, the in-memory token is one of the tokens
\* fetched, each POST carried one of them or the empty token, and the store
\* holds either the complete record of one of them or, after overlapping writes
\* of records of different length, the longer record's length of text that is
\* no JSON.
C34_LastWriterWins ==
    BothAcquired
        => /\ tag \in WriterTokens
           /\ \A t \in Tasks : task[t].sent \in WriterTokens \cup {""}
           /\ \/ files[StorePath] \in {TokenRecord(T) : T \in WriterTokens}
              \/ /\ files[StorePath].kind = "garbage"
                 /\ files[StorePath].size = TokenRecord(LongToken).size

\* both have ended, the store holds the complete record of one token and the
\* in-memory token is another
C34_Witness ==
    /\ BothAcquired
    /\ files[StorePath].kind = "record"
    /\ tag \in WriterTokens
    /\ tag # files[StorePath].token

\* C35: an operation whose existence check found the file and whose read found
\* no token in it, clear_cache() having removed the file in between, fetches a
\* token before its POST.
C35_ClearedMidwayRefetches ==
    \A t \in Tasks :
        (/\ task[t].pc = "post_wait"
         /\ task[t].ex /\ task[t].seen.kind = "record"
         /\ task[t].cache_data = EmptyDict)
            => task[t].fetch # "none" /\ task[t].sent # ""

\* the operation of task t has begun and not ended
Running(t) == task[t].pc \notin {"idle", "done"}

\* C38: every operation ends, returning or raising, when every network call
\* and cache-file operation returns or raises, although each fetch and each
\* POST may raise aiohttp.ClientError.
C38_OperationTerminates ==
    /\ [](\A t \in Tasks :
             task[t].pc \in {"gh_fetch", "post_wait"}
                => task[t].faults < fault_budget)
    /\ \A t \in Tasks : Running(t) ~> Done(t)

\* an operation ended with aiohttp.ClientError after every one of its fetches
\* had raised it
C38_Witness ==
    \E t \in Tasks :
        /\ Done(t)
        /\ task[t].out = Raised("ClientError")
        /\ task[t].fetches = MAX_RETRIES * MAX_RETRIES
        /\ task[t].posts = 0

=============================================================================
